---- MODULE Spec2Model ----
(***************************************************************************)
(* A model of the feed-forward network engine in src/src/neural_network.py *)
(* and of the activation and metric functions in src/utils.py.             *)
(*                                                                         *)
(* Arrays are matrices of integers (a sequence of rows); the arithmetic of *)
(* numpy (dot, elementwise product, broadcasting a bias over the rows,     *)
(* column sums, in-place +=) is exact on them.  The only activation whose  *)
(* arithmetic is exact on integers is relu, so the layers that are         *)
(* evaluated are relu layers; sigmoid and softmax appear only as names in  *)
(* the layer specifications handed to the constructor.                     *)
(*                                                                         *)
(* Python indices are kept in the records and logs (layer 0 is the first   *)
(* layer); the layer with Python index i is layers[i + 1].                 *)
(***************************************************************************)
EXTENDS Integers, Sequences, FiniteSets, TLC

VARIABLES
    nn,            \* the NeuralNetwork object: "none", "ok" or "raised"
    X_train,       \* NeuralNetwork.X_train
    y_train,       \* NeuralNetwork.y_train
    layers,        \* NeuralNetwork.layers: the ordered chain of Layer objects
    loss_history,  \* NeuralNetwork.loss_history
    lifecycle,     \* of a layer driven directly: CONSTRUCTED, FORWARDED, UPDATED
    calls,         \* number of calls made so far (bounds the behaviours)
    last           \* the most recent call: its arguments, outcome and call log

vars == <<nn, X_train, y_train, layers, loss_history, lifecycle, calls, last>>

(***************************************************************************)
(* Bounds of the model.                                                    *)
(***************************************************************************)
MaxLayers == 2       \* longest chain of layers
MaxEpochs == 2       \* largest epochs argument of train
MaxCalls == 2        \* train / predict calls per network
MaxLayerCalls == 3   \* direct forward / backward calls on a layer
MaxMag == 200        \* largest absolute value of an array element
MaxZ == 1            \* relu inputs range over -MaxZ .. MaxZ

NeuronCounts == {1, 2}
Seeds == {1, 2}
DataIds == {1, 2}
LearningRates == {0, 1}
Epochs == -1 .. MaxEpochs
ActivationNames == {"relu", "sigmoid", "softmax"}

\* Python's None
None == <<>>

(***************************************************************************)
(* numpy on integer matrices                                               *)
(***************************************************************************)
Rows(m) == Len(m)
Cols(m) == Len(m[1])
Shape(m) == <<Rows(m), Cols(m)>>

RECURSIVE SumSeq(_)
SumSeq(s) == IF s = <<>> THEN 0 ELSE Head(s) + SumSeq(Tail(s))

\* np.dot(a, b)
Dot(a, b) ==
    [i \in 1..Rows(a) |->
        [j \in 1..Cols(b) |-> SumSeq([k \in 1..Cols(a) |-> a[i][k] * b[k][j]])]]

\* a.T
Transpose(m) == [j \in 1..Cols(m) |-> [i \in 1..Rows(m) |-> m[i][j]]]

\* a * b, elementwise
Mul(a, b) == [i \in 1..Rows(a) |-> [j \in 1..Cols(a) |-> a[i][j] * b[i][j]]]

\* a - b, elementwise
Sub(a, b) == [i \in 1..Rows(a) |-> [j \in 1..Cols(a) |-> a[i][j] - b[i][j]]]

\* m + v, the vector v broadcast over the rows of m
AddBias(m, v) == [i \in 1..Rows(m) |-> [j \in 1..Cols(m) |-> m[i][j] + v[j]]]

\* np.sum(m, axis=0)
ColSum(m) == [j \in 1..Cols(m) |-> SumSeq([i \in 1..Rows(m) |-> m[i][j]])]

\* w += -alpha * g, on matrices
AxpyM(w, alpha, g) ==
    [i \in 1..Rows(w) |-> [j \in 1..Cols(w) |-> w[i][j] + (-alpha) * g[i][j]]]

\* b += -alpha * g, on vectors
AxpyV(b, alpha, g) == [j \in 1..Len(b) |-> b[j] + (-alpha) * g[j]]

\* np.zeros(n)
Zeros(n) == [j \in 1..n |-> 0]

\* The bound on magnitudes: a call whose arrays leave -MaxMag .. MaxMag is not
\* taken (its outcome is "OutOfRange", which no action accepts).
Abs(x) == IF x < 0 THEN -x ELSE x
FitsV(v) == \A j \in 1..Len(v) : Abs(v[j]) <= MaxMag
FitsM(m) == \A i \in 1..Len(m) : FitsV(m[i])

(***************************************************************************)
(* utils.py                                                                *)
(***************************************************************************)
\* np.where(cond, a, m) with cond an elementwise test of m
WhereNeg(m, a) ==
    [i \in 1..Rows(m) |-> [j \in 1..Cols(m) |-> IF m[i][j] < 0 THEN a ELSE m[i][j]]]
WhereNonNeg(m, a) ==
    [i \in 1..Rows(m) |-> [j \in 1..Cols(m) |-> IF m[i][j] >= 0 THEN a ELSE m[i][j]]]
Maximum0(m) ==
    [i \in 1..Rows(m) |-> [j \in 1..Cols(m) |-> IF m[i][j] > 0 THEN m[i][j] ELSE 0]]

relu(z, derivative) ==
    IF derivative
    THEN LET z1 == WhereNeg(z, 0)
             z2 == WhereNonNeg(z1, 1)
         IN  z2
    ELSE Maximum0(z)

\* calling layer.activation_f
activation(f, z, derivative) ==
    CASE f = "relu" -> relu(z, derivative)

\* np.argmax(m, axis=1): per row, the first (0-based) index of the maximum
ArgMaxRow(r) ==
    (CHOOSE j \in 1..Len(r) :
        /\ \A k \in 1..Len(r) : r[k] <= r[j]
        /\ \A k \in 1..(j - 1) : r[k] < r[j]) - 1
ArgMax(m) == [i \in 1..Rows(m) |-> ArgMaxRow(m[i])]

\* np.sum(y_p == y_t) / len(y_t), kept as a fraction
accuracy(y_p, y_t) ==
    [num |-> Cardinality({i \in 1..Len(y_t) : y_p[i] = y_t[i]}), den |-> Len(y_t)]

(***************************************************************************)
(* Layer                                                                   *)
(***************************************************************************)
\* self.memory = {}
EmptyMemory == [keys |-> {}, Z |-> None, Activation |-> None]

\* np.random.uniform(low=-1, high=1, size=(r, c)): one of the draws in Seeds
uniform(seed, r, c) ==
    [i \in 1..r |-> [j \in 1..c |->
        IF seed = 1 THEN 1 ELSE IF (i + j) % 2 = 0 THEN 1 ELSE -1]]

LayerInit(_input, n_neurons, activation_f, seed) ==
    [input |-> _input,
     n_neurons |-> n_neurons,
     activation_f |-> activation_f,
     memory |-> EmptyMemory,
     n_features |-> Cols(_input),
     n_samples |-> Rows(_input),
     weights |-> uniform(seed, Cols(_input), n_neurons),
     bias |-> Zeros(n_neurons),
     learning_rate |-> 0]

\* a forward that also writes a parameter: the bias takes the column sums of Z
forward_writes_bias(layer, x) ==
    LET Z == AddBias(Dot(x, layer.weights), layer.bias)
        A == activation(layer.activation_f, Z, FALSE)
    IN  [layer |-> [layer EXCEPT !.input = x,
                                 !.bias = ColSum(Z),
                                 !.memory = [keys |-> {"Z", "Activation"},
                                             Z |-> Z, Activation |-> A]],
         ret |-> A,
         exc |-> "none"]

\* Layer.forward: the layer after the call and the value returned
forward(layer, x) ==
    LET Z == AddBias(Dot(x, layer.weights), layer.bias)
        A == activation(layer.activation_f, Z, FALSE)
    IN  [layer |-> [layer EXCEPT !.input = x,
                                 !.memory = [keys |-> {"Z", "Activation"},
                                             Z |-> Z, Activation |-> A]],
         ret |-> A,
         exc |-> "none"]

\* Layer.backward: the layer after the call, the value returned, the exception
backward(layer, previous_derivative, req_delta) ==
    IF "Z" \notin layer.memory.keys
    THEN [layer |-> layer, ret |-> None, exc |-> "KeyError"]
    ELSE LET da_dz == activation(layer.activation_f, layer.memory.Z, TRUE)
             e == Mul(previous_derivative, da_dz)
             w_grad == Dot(Transpose(layer.input), e)
             b_grad == ColSum(e)
             w == AxpyM(layer.weights, layer.learning_rate, w_grad)
             b == AxpyV(layer.bias, layer.learning_rate, b_grad)
         IN  [layer |-> [layer EXCEPT !.weights = w, !.bias = b],
              ret |-> IF req_delta
                      THEN Dot(e, Transpose(w))
                      ELSE None,
              exc |-> "none"]

\* Layer.__add__
LayerAdd(layer, other, seed) ==
    LET f == forward(layer, layer.input)
    IN  [self |-> f.layer,
         new |-> LayerInit(f.ret, other.neurons, other.activation_f, seed)]

FitsLayer(l) ==
    /\ FitsM(l.input) /\ FitsM(l.weights) /\ FitsV(l.bias)
    /\ FitsM(l.memory.Z) /\ FitsM(l.memory.Activation)

\* the trainable parameters of a chain
Params(ls) ==
    [i \in 1..Len(ls) |->
        [weights |-> ls[i].weights, bias |-> ls[i].bias,
         learning_rate |-> ls[i].learning_rate]]

(***************************************************************************)
(* Data handed to the program                                              *)
(***************************************************************************)
DataSet(k) ==
    IF k = 1 THEN << <<1, 0>>, <<0, 1>> >> ELSE << <<1, 1>>, <<-1, 1>> >>
Targets(k) ==
    IF k = 1 THEN << <<1, 0>>, <<0, 1>> >> ELSE << <<0, 1>>, <<1, 0>> >>
Labels(k) == IF k = 1 THEN <<0, 1>> ELSE <<1, 0>>

(***************************************************************************)
(* Loss module.  utils.loss and utils.loss_derivative are called by train  *)
(* but are not defined in src/utils.py; they follow the specification: a   *)
(* squared error normalised by the sample count, and its gradient with     *)
(* respect to the prediction, of the prediction's shape.                   *)
(***************************************************************************)
loss(prediction, target, n_samples) ==
    LET d == Sub(prediction, target)
    IN  SumSeq([i \in 1..Rows(d) |-> SumSeq([j \in 1..Cols(d) |-> d[i][j] * d[i][j]])])
            \div n_samples

loss_derivative(target, prediction) == Sub(prediction, target)

\* the shape-mismatch condition: prediction and target arrays that disagree
loss_shape_error(prediction, target) == Shape(prediction) # Shape(target)

(***************************************************************************)
(* NeuralNetwork                                                           *)
(***************************************************************************)
\* NeuralNetwork.clean: indexing the list of specifications with a string
\* raises TypeError as soon as the comprehension has an element to build
clean(specs) ==
    IF Len(specs) = 0
    THEN [layers |-> <<>>, exc |-> "none"]
    ELSE [layers |-> None, exc |-> "TypeError"]

\* NeuralNetwork.set_lr
set_lr(alpha, ls) == [i \in 1..Len(ls) |-> [ls[i] EXCEPT !.learning_rate = alpha]]

\* one Layer.forward call made by NeuralNetwork.propagation on layer idx:
\* the call is logged, and tmp_hat is assigned where the source assigns it
ForwardCall(st, idx, x, f, assigns) ==
    [st EXCEPT !.layers[idx + 1] = f.layer,
               !.ret = IF assigns THEN f.ret ELSE @,
               !.bound = assigns \/ @,
               !.log = Append(@, [idx |-> idx, x |-> x, out |-> f.ret]),
               !.exc = IF FitsM(x) /\ FitsM(f.ret) THEN "none" ELSE "OutOfRange"]

ForwardAt(st, idx, x, assigns) ==
    ForwardCall(st, idx, x, forward(st.layers[idx + 1], x), assigns)

\* tmp_hat = self.layers[index + 1].forward(self.layers[index].memory['Activation'])
ForwardNext(st, index) ==
    IF st.exc # "none"
    THEN st
    ELSE ForwardAt(st, index + 1, st.layers[index + 1].memory.Activation, TRUE)

\* one iteration of the loop of NeuralNetwork.propagation
PropStep(st, index) ==
    ForwardNext(IF index = 0
                THEN ForwardAt(st, 0, st.layers[1].input, FALSE)
                ELSE st,
                index)

RECURSIVE PropLoop(_, _)
PropLoop(st, index) ==
    IF index >= Len(st.layers) - 1 \/ st.exc # "none"
    THEN st
    ELSE PropLoop(PropStep(st, index), index + 1)

\* return tmp_hat: a name no iteration of the loop has bound
ReturnTmpHat(st) ==
    IF st.exc = "none" /\ ~st.bound
    THEN [st EXCEPT !.exc = "UnboundLocalError"]
    ELSE st

\* NeuralNetwork.propagation: the layers after the pass, the value returned
\* (tmp_hat), the exception raised and the forward calls made, in order
propagation(ls, x_test, test) ==
    IF test /\ Len(ls) = 0
    THEN [layers |-> ls, ret |-> None, bound |-> FALSE, exc |-> "IndexError",
          log |-> <<>>]
    ELSE ReturnTmpHat(
             PropLoop([layers |-> IF test THEN [ls EXCEPT ![1].input = x_test] ELSE ls,
                       ret |-> None, bound |-> FALSE, exc |-> "none", log |-> <<>>],
                      0))

need_delta_always(idx) == TRUE

\* the req_delta argument NeuralNetwork.backpropagation passes to layer idx
need_delta(idx) == idx # 0

\* one Layer.backward call made by NeuralNetwork.backpropagation, logged
BackwardCall(st, idx, req_delta, b) ==
    [st EXCEPT !.layers[idx + 1] = b.layer,
               !.tmp_derivative = b.ret,
               !.log = Append(@, [idx |-> idx,
                                  previous_derivative |-> st.tmp_derivative,
                                  req_delta |-> req_delta,
                                  ret |-> b.ret]),
               !.exc = IF b.exc # "none" THEN b.exc
                       ELSE IF FitsM(b.layer.weights) /\ FitsV(b.layer.bias)
                               /\ FitsM(b.ret)
                            THEN "none" ELSE "OutOfRange"]

BackwardAt(st, idx, req_delta) ==
    BackwardCall(st, idx, req_delta,
                 backward(st.layers[idx + 1], st.tmp_derivative, req_delta))

\* one iteration of the loop of NeuralNetwork.backpropagation
BackStep(st, idx) == BackwardAt(st, idx, need_delta(idx))

RECURSIVE BackLoop(_, _)
BackLoop(st, idx) ==
    IF idx < 0 \/ st.exc # "none"
    THEN st
    ELSE BackLoop(BackStep(st, idx), idx - 1)

\* NeuralNetwork.backpropagation
backpropagation(ls, tmp_derivative) ==
    IF FitsM(tmp_derivative)
    THEN BackLoop([layers |-> ls, tmp_derivative |-> tmp_derivative,
                   exc |-> "none", log |-> <<>>], Len(ls) - 1)
    ELSE [layers |-> ls, tmp_derivative |-> tmp_derivative,
          exc |-> "OutOfRange", log |-> <<>>]

RangeLenOffByOne(epochs) == IF epochs > 0 THEN epochs + 1 ELSE 0

\* len(range(epochs))
RangeLen(epochs) == IF epochs > 0 THEN epochs ELSE 0

\* the end of an epoch: the loss is appended, the layers are those the
\* backward pass left
EpochEnd(st, p, temp_loss, d, b) ==
    [st EXCEPT !.layers = b.layers,
               !.loss_history = Append(@, temp_loss),
               !.exc = b.exc,
               !.log = Append(@, [fwd |-> p.log, prediction |-> p.ret,
                                  loss_derivative |-> d, bwd |-> b.log])]

EpochBackward(st, p, temp_loss, d) ==
    EpochEnd(st, p, temp_loss, d, backpropagation(p.layers, d))

\* an epoch that an exception ends before the loss is appended
EpochRaised(st, p, exc) ==
    [st EXCEPT !.layers = p.layers,
               !.exc = exc,
               !.log = Append(@, [fwd |-> p.log, prediction |-> p.ret,
                                  loss_derivative |-> None, bwd |-> <<>>])]

EpochAfterForward(st, p, x_train, y) ==
    IF p.exc # "none"
    THEN EpochRaised(st, p, p.exc)
    ELSE IF loss_shape_error(p.ret, y)
    THEN EpochRaised(st, p, "ValueError")
    ELSE EpochBackward(st, p, loss(p.ret, y, Rows(x_train)),
                       loss_derivative(y, p.ret))

\* the body of the loop of NeuralNetwork.train
Epoch(st, x_train, y) ==
    EpochAfterForward(st, propagation(st.layers, 0, FALSE), x_train, y)

RECURSIVE TrainLoop(_, _, _, _)
TrainLoop(st, k, x_train, y) ==
    IF k = 0 \/ st.exc # "none"
    THEN st
    ELSE TrainLoop(Epoch(st, x_train, y), k - 1, x_train, y)

\* NeuralNetwork.train: the layers and the loss history after the call, the
\* exception it raised, and one log entry per epoch it started
train(ls, hist, x_train, y, epochs, learning_rate) ==
    TrainLoop([layers |-> set_lr(learning_rate, ls), loss_history |-> hist,
               exc |-> "none", log |-> <<>>],
              RangeLen(epochs), x_train, y)

PredictResult(p, y_test) ==
    [layers |-> p.layers,
     exc |-> p.exc,
     log |-> p.log,
     prediction |-> p.ret,
     ret |-> IF p.exc = "none" THEN accuracy(ArgMax(p.ret), y_test) ELSE None]

\* NeuralNetwork.predict
predict(ls, x_test, y_test) == PredictResult(propagation(ls, x_test, TRUE), y_test)

(***************************************************************************)
(* The network: construction, building the chain, training, inference      *)
(***************************************************************************)
SpecLists ==
    UNION {[1..n -> [neurons : NeuronCounts, activation_f : ActivationNames]] :
              n \in 0..MaxLayers}

Init ==
    /\ nn = "none"
    /\ X_train = None
    /\ y_train = None
    /\ layers = <<>>
    /\ loss_history = <<>>
    /\ lifecycle = <<>>
    /\ calls = 0
    /\ last = [op |-> "none"]

\* nn = NeuralNetwork(specs, x_train, x_test, y_train, y_test)
Construct(specs, k) ==
    /\ nn = "none"
    /\ LET c == clean(specs)
       IN  /\ nn' = IF c.exc = "none" THEN "ok" ELSE "raised"
           /\ layers' = IF c.exc = "none" THEN c.layers ELSE <<>>
           /\ last' = [op |-> "init", specs |-> specs, exc |-> c.exc]
    /\ X_train' = DataSet(k)
    /\ y_train' = Targets(k)
    /\ loss_history' = <<>>
    /\ UNCHANGED <<lifecycle, calls>>

\* The chain of a constructed network is extended as the source builds a
\* chain: the first layer with Layer(X_train, ...), every further one with
\* Layer.__add__ on the layer before it.
AppendLayer(n, seed) ==
    /\ nn = "ok"
    /\ calls = 0
    /\ Len(layers) < MaxLayers
    /\ layers' =
         IF layers = <<>>
         THEN <<LayerInit(X_train, n, "relu", seed)>>
         ELSE LET a == LayerAdd(layers[Len(layers)],
                                [neurons |-> n, activation_f |-> "relu"], seed)
              IN  Append([layers EXCEPT ![Len(layers)] = a.self], a.new)
    /\ last' = [op |-> "append", neurons |-> n]
    /\ UNCHANGED <<nn, X_train, y_train, loss_history, lifecycle, calls>>

TrainReturn(epochs, learning_rate, r) ==
    /\ r.exc # "OutOfRange"
    /\ layers' = r.layers
    /\ loss_history' = r.loss_history
    /\ last' = [op |-> "train", epochs |-> epochs,
                learning_rate |-> learning_rate, exc |-> r.exc,
                params_before |-> Params(layers),
                history_before |-> loss_history,
                log |-> r.log]

\* nn.train(epochs, learning_rate)
Train(epochs, learning_rate) ==
    /\ nn = "ok"
    /\ calls < MaxCalls
    /\ TrainReturn(epochs, learning_rate,
                   train(layers, loss_history, X_train, y_train, epochs, learning_rate))
    /\ calls' = calls + 1
    /\ UNCHANGED <<nn, X_train, y_train, lifecycle>>

PredictReturn(x_test, r) ==
    /\ r.exc # "OutOfRange"
    /\ layers' = r.layers
    /\ last' = [op |-> "predict", x_test |-> x_test, exc |-> r.exc,
                params_before |-> Params(layers),
                history_before |-> loss_history,
                log |-> r.log, prediction |-> r.prediction, ret |-> r.ret]

\* nn.predict(x_test, y_test)
Predict(k) ==
    /\ nn = "ok"
    /\ calls < MaxCalls
    /\ PredictReturn(DataSet(k), predict(layers, DataSet(k), Labels(k)))
    /\ calls' = calls + 1
    /\ UNCHANGED <<nn, X_train, y_train, loss_history, lifecycle>>

Next ==
    \/ \E specs \in SpecLists, k \in DataIds : Construct(specs, k)
    \/ \E n \in NeuronCounts, seed \in Seeds : AppendLayer(n, seed)
    \/ \E epochs \in Epochs, lr \in LearningRates : Train(epochs, lr)
    \/ \E k \in DataIds : Predict(k)

Spec == Init /\ [][Next]_vars

(***************************************************************************)
(* A single layer driven directly: Layer.forward, Layer.backward and the   *)
(* static NeuralNetwork.set_lr, called in any order on one Layer object.   *)
(* lifecycle records the layer's state in the specification's life cycle.  *)
(***************************************************************************)
UpstreamSet(r, c) == {[i \in 1..r |-> [j \in 1..c |-> v]] : v \in {-1, 1}}

LayerSpecInit ==
    /\ nn = "none"
    /\ X_train = None
    /\ y_train = None
    /\ \E k \in DataIds, n \in NeuronCounts, seed \in Seeds :
           layers = <<LayerInit(DataSet(k), n, "relu", seed)>>
    /\ loss_history = <<>>
    /\ lifecycle = <<"CONSTRUCTED">>
    /\ calls = 0
    /\ last = [op |-> "none"]

\* NeuralNetwork.set_lr(alpha, [layer])
SetLr(alpha) ==
    /\ layers[1].learning_rate # alpha
    /\ layers' = set_lr(alpha, layers)
    /\ last' = [op |-> "set_lr", alpha |-> alpha]
    /\ UNCHANGED <<nn, X_train, y_train, loss_history, lifecycle, calls>>

ForwardReturn(x, f) ==
    /\ FitsLayer(f.layer)
    /\ layers' = <<f.layer>>
    /\ last' = [op |-> "forward", x |-> x, ret |-> f.ret, exc |-> f.exc,
                state_before |-> lifecycle[1]]

\* layer.forward(x)
LayerForward(x) ==
    /\ calls < MaxLayerCalls
    /\ ForwardReturn(x, forward(layers[1], x))
    /\ lifecycle' = <<"FORWARDED">>
    /\ calls' = calls + 1
    /\ UNCHANGED <<nn, X_train, y_train, loss_history>>

BackwardReturn(previous_derivative, req_delta, b) ==
    /\ FitsLayer(b.layer)
    /\ FitsM(b.ret)
    /\ layers' = <<b.layer>>
    /\ lifecycle' = IF b.exc = "none" THEN <<"UPDATED">> ELSE lifecycle
    /\ last' = [op |-> "backward", previous_derivative |-> previous_derivative,
                req_delta |-> req_delta, ret |-> b.ret, exc |-> b.exc,
                state_before |-> lifecycle[1], layer_before |-> layers[1]]

\* layer.backward(previous_derivative, req_delta)
LayerBackward(previous_derivative, req_delta) ==
    /\ calls < MaxLayerCalls
    /\ BackwardReturn(previous_derivative, req_delta,
                      backward(layers[1], previous_derivative, req_delta))
    /\ calls' = calls + 1
    /\ UNCHANGED <<nn, X_train, y_train, loss_history>>

LayerSpecNext ==
    \/ \E alpha \in LearningRates : SetLr(alpha)
    \/ \E k \in DataIds : LayerForward(DataSet(k))
    \/ \E d \in UpstreamSet(layers[1].n_samples, layers[1].n_neurons),
          req_delta \in BOOLEAN : LayerBackward(d, req_delta)

LayerSpec == LayerSpecInit /\ [][LayerSpecNext]_vars

(***************************************************************************)
(* utils.relu as a pure function of bounded arrays                         *)
(***************************************************************************)
ZSet == [1..2 -> [1..2 -> (-MaxZ)..MaxZ]]

\* utils.relu(z, derivative)
ReluCall(z, derivative) ==
    /\ last' = [op |-> "relu", z |-> z, derivative |-> derivative,
                ret |-> relu(z, derivative)]
    /\ UNCHANGED <<nn, X_train, y_train, layers, loss_history, lifecycle, calls>>

ReluNext == \E z \in ZSet, derivative \in BOOLEAN : ReluCall(z, derivative)

ReluSpec == Init /\ [][ReluNext]_vars

(***************************************************************************)
(* Properties                                                              *)
(***************************************************************************)
\* the forward calls of epoch e of the last train call that were made on layer 0
Layer0Calls(e) ==
    {c \in 1..Len(last.log[e].fwd) : last.log[e].fwd[c].idx = 0}

\* C1: in every epoch of every train call, whatever calls preceded it, the
\* forward pass feeds layer 0 the training feature matrix X_train.  (Stated of
\* the epochs that went on to their backward pass.)
C1_TrainFeedsXTrain ==
    last.op = "train" =>
        \A e \in 1..Len(last.log) :
            last.log[e].loss_derivative # None =>
                \A c \in Layer0Calls(e) : last.log[e].fwd[c].x = X_train

\* C2 as claimed: after a call train(epochs=E, ...) with a positive E
\* completes, the loss history has exactly E entries.
C2_LengthEqualsEpochs ==
    (last.op = "train" /\ last.exc = "none" /\ last.epochs >= 1) =>
        Len(loss_history) = last.epochs

\* C2 as amended: after a call train(epochs=E, ...) completes, the loss
\* history is the history before the call followed by exactly E new entries
\* (none when E is not positive).
C2_LengthGrowsByEpochs ==
    (last.op = "train" /\ last.exc = "none") =>
        /\ Len(loss_history) =
              Len(last.history_before) + (IF last.epochs > 0 THEN last.epochs ELSE 0)
        /\ SubSeq(loss_history, 1, Len(last.history_before)) = last.history_before

\* a second training call of several epochs that completed
C2_Witness ==
    /\ last.op = "train"
    /\ last.exc = "none"
    /\ last.epochs = MaxEpochs
    /\ last.history_before # <<>>

\* C3: for every network with n >= 1 layers the forward pass calls forward on
\* each layer exactly once in index order, layer 0 receiving the input x and
\* layer i+1 receiving layer i's output, and returns the last layer's output.
C3_ForwardPassChain ==
    (last.op = "predict" /\ Len(layers) >= 1) =>
        /\ last.exc = "none"
        /\ Len(last.log) = Len(layers)
        /\ \A i \in 1..Len(last.log) :
              /\ last.log[i].idx = i - 1
              /\ last.log[i].x = IF i = 1 THEN last.x_test ELSE last.log[i - 1].out
        /\ last.prediction = last.log[Len(last.log)].out

\* C4: Layer.backward on a layer with no forward call since its construction
\* or since its most recent backward call fails and leaves the weights and
\* the bias as they were.
C4_StaleBackwardFails ==
    (last.op = "backward" /\ last.state_before \in {"CONSTRUCTED", "UPDATED"}) =>
        /\ last.exc # "none"
        /\ layers[1].weights = last.layer_before.weights
        /\ layers[1].bias = last.layer_before.bias

\* C5: constructing a network from k layer specifications yields k layers in
\* the same order, layer i with the neuron count and activation of
\* specification i, layer 0 as wide as X_train has columns, and every further
\* layer as wide as the layer before it has neurons.
C5_ConstructionWiring ==
    last.op = "init" =>
        /\ last.exc = "none"
        /\ Len(layers) = Len(last.specs)
        /\ \A i \in 1..Len(layers) :
              /\ layers[i].n_neurons = last.specs[i].neurons
              /\ layers[i].activation_f = last.specs[i].activation_f
              /\ layers[i].n_features =
                    IF i = 1 THEN Cols(X_train) ELSE layers[i - 1].n_neurons

\* C6: predict updates no parameter: the weights, bias and learning rate of
\* every layer and the loss history are the same after the call as before.
C6_PredictNoUpdate ==
    last.op = "predict" =>
        /\ Params(layers) = last.params_before
        /\ loss_history = last.history_before

\* a prediction returned by a network that training has already updated
C6_Witness ==
    /\ last.op = "predict"
    /\ last.exc = "none"
    /\ last.x_test # X_train
    /\ loss_history # <<>>
    /\ \E i \in 1..Len(layers) : layers[i].bias # Zeros(layers[i].n_neurons)

\* C7: train called with a non-positive epochs or learning_rate is rejected
\* with an error and leaves the parameters and the loss history unchanged.
C7_RejectsNonPositive ==
    (last.op = "train" /\ (last.epochs <= 0 \/ last.learning_rate <= 0)) =>
        /\ last.exc # "none"
        /\ Params(layers) = last.params_before
        /\ loss_history = last.history_before

\* C8: the error signal Layer.backward returns when req_delta is true is E
\* times the transpose of the weights as they were before this call's update,
\* E being the upstream derivative times the activation derivative.
C8_DeltaUsesPreUpdateWeights ==
    (last.op = "backward" /\ last.exc = "none" /\ last.req_delta) =>
        last.ret =
            Dot(Mul(last.previous_derivative,
                    activation(last.layer_before.activation_f,
                               last.layer_before.memory.Z, TRUE)),
                Transpose(last.layer_before.weights))

C10_ReluDerivative ==
    (last.op = "relu" /\ last.derivative) =>
        \A i \in 1..Rows(last.z) : \A j \in 1..Cols(last.z) :
            last.ret[i][j] = IF last.z[i][j] >= 0 THEN 1 ELSE 0

====
